---- MODULE Spec2Model ----
(***************************************************************************)
(* xlnt::detail::xlsx_producer (source/detail/xlsx_producer.cpp): the      *)
(* package assembly and part dispatch of the XLSX writer, as a state       *)
(* machine.  One producer is constructed over a workbook (document model   *)
(* plus manifest); write() runs populate_archive() and then saves the      *)
(* archive.  The sink (destination_) is the sequence of write_string calls *)
(* it has received.                                                        *)
(***************************************************************************)
EXTENDS Naturals, Sequences, FiniteSets, TLC

(***************************************************************************)
(* Bounds of the model.                                                    *)
(***************************************************************************)
MaxRootRels == 2
MaxWbRels == 2
MaxSheets == 2

(***************************************************************************)
(* xlnt::path.  A path is its list of components and whether it starts at  *)
(* the package root.  path("/") has no components.                         *)
(***************************************************************************)
Rel(parts) == [abs |-> FALSE, parts |-> parts]

RootPath == [abs |-> TRUE, parts |-> <<>>]

RECURSIVE normalize(_)
normalize(parts) ==
    IF parts = <<>> THEN <<>>
    ELSE LET init == normalize(SubSeq(parts, 1, Len(parts) - 1))
             last == parts[Len(parts)]
         IN  IF last = "." THEN init
             ELSE IF last = ".." /\ init # <<>> /\ init[Len(init)] # ".."
                  THEN SubSeq(init, 1, Len(init) - 1)
                  ELSE Append(init, last)

is_absolute(p) == p.abs

parent(p) ==
    IF p.parts = <<>> THEN p
    ELSE [abs |-> p.abs, parts |-> SubSeq(p.parts, 1, Len(p.parts) - 1)]

filename(p) == IF p.parts = <<>> THEN "" ELSE p.parts[Len(p.parts)]

append(p, q) == [abs |-> p.abs, parts |-> normalize(p.parts \o q.parts)]

append_string(p, s) == [abs |-> p.abs, parts |-> Append(p.parts, s)]

\* path(p.string().substr(1)): the same components, no leading separator
strip_leading_separator(p) == [abs |-> FALSE, parts |-> p.parts]

RECURSIVE join(_)
join(parts) ==
    IF parts = <<>> THEN ""
    ELSE IF Len(parts) = 1 THEN parts[1]
    ELSE parts[1] \o "/" \o join(Tail(parts))

string(p) == IF p.abs THEN "/" \o join(p.parts) ELSE join(p.parts)

\* part.resolve(base): the part below an absolute base
resolve(p, base) == IF p.abs THEN p ELSE [abs |-> base.abs, parts |-> base.parts \o p.parts]

(***************************************************************************)
(* xml::serializer over an ostringstream.  A buffer is the list of tokens  *)
(* emitted so far; from it follow the number of elements started and not   *)
(* yet ended and the number of elements started at nesting depth 0.        *)
(***************************************************************************)
Tok(k, n, v) == [k |-> k, n |-> n, v |-> v]

EmptyBuf == [toks |-> <<>>]

start_element(b, n) == [b EXCEPT !.toks = Append(@, Tok("start", n, ""))]

end_element(b) == [b EXCEPT !.toks = Append(@, Tok("end", "", ""))]

attribute(b, n, v) == [b EXCEPT !.toks = Append(@, Tok("attr", n, v))]

namespace_decl(b, ns, prefix) == [b EXCEPT !.toks = Append(@, Tok("xmlns", prefix, ns))]

characters(b, text) == [b EXCEPT !.toks = Append(@, Tok("text", "", text))]

\* the tokens of kind k among the first n of a buffer
Among(b, k, n) == { i \in 1..n : b.toks[i].k = k }

\* the elements started and not yet ended
depth(b) ==
    Cardinality(Among(b, "start", Len(b.toks))) - Cardinality(Among(b, "end", Len(b.toks)))

\* the elements started with no element open
roots(b) ==
    Cardinality({ i \in Among(b, "start", Len(b.toks)) :
                    Cardinality(Among(b, "start", i - 1)) = Cardinality(Among(b, "end", i - 1)) })

element(b, n, text) == end_element(characters(start_element(b, n), text))

(***************************************************************************)
(* Relationships of the manifest.  The ids of one source part are unique   *)
(* and are given out in registration order.                                *)
(***************************************************************************)
RelIds == <<"rId1", "rId2", "rId3", "rId4", "rId5", "rId6", "rId7", "rId8", "rId9">>

Relationship(id, type, source, target, mode) ==
    [id |-> id, type |-> type, source |-> source, target |-> target, mode |-> mode]

WorkbookPart == Rel(<<"xl", "workbook.xml">>)

\* what the package root may relate to
RootCatalog ==
    << [type |-> "core_properties", target |-> Rel(<<"docProps", "core.xml">>), mode |-> "internal"],
       [type |-> "thumbnail", target |-> Rel(<<"docProps", "thumbnail.jpeg">>), mode |-> "internal"],
       [type |-> "office_document", target |-> WorkbookPart, mode |-> "internal"],
       [type |-> "extended_properties", target |-> Rel(<<"docProps", "app.xml">>), mode |-> "internal"],
       [type |-> "custom_properties", target |-> Rel(<<"docProps", "custom.xml">>), mode |-> "internal"],
       [type |-> "printer_settings", target |-> Rel(<<"printerSettings1.bin">>), mode |-> "internal"],
       [type |-> "hyperlink", target |-> Rel(<<"http://example.com/">>), mode |-> "external"] >>

\* what the workbook part may relate to, besides the worksheets of its sheets
WorkbookCatalog ==
    << [type |-> "styles", target |-> Rel(<<"styles.xml">>), mode |-> "internal"],
       [type |-> "theme", target |-> Rel(<<"theme", "theme1.xml">>), mode |-> "internal"],
       [type |-> "shared_string_table", target |-> Rel(<<"sharedStrings.xml">>), mode |-> "internal"],
       [type |-> "calculation_chain", target |-> Rel(<<"calcChain.xml">>), mode |-> "internal"],
       [type |-> "chartsheet", target |-> Rel(<<"chartsheets", "sheet1.xml">>), mode |-> "internal"],
       [type |-> "dialogsheet", target |-> Rel(<<"dialogsheets", "sheet1.xml">>), mode |-> "internal"],
       [type |-> "connections", target |-> Rel(<<"connections.xml">>), mode |-> "internal"],
       [type |-> "custom_xml_mappings", target |-> Rel(<<"xmlMaps.xml">>), mode |-> "internal"],
       [type |-> "external_workbook_references", target |-> Rel(<<"externalLinks", "externalLink1.xml">>), mode |-> "internal"],
       [type |-> "metadata", target |-> Rel(<<"metadata.xml">>), mode |-> "internal"],
       [type |-> "pivot_table", target |-> Rel(<<"pivotTables", "pivotTable1.xml">>), mode |-> "internal"],
       [type |-> "shared_workbook_revision_headers", target |-> Rel(<<"revisions", "revisionHeaders.xml">>), mode |-> "internal"],
       [type |-> "volatile_dependencies", target |-> Rel(<<"volatileDependencies.xml">>), mode |-> "internal"],
       [type |-> "worksheet", target |-> Rel(<<"worksheets", "removed.xml">>), mode |-> "internal"],
       [type |-> "shared_workbook_user_data", target |-> Rel(<<"revisions", "userNames.xml">>), mode |-> "internal"],
       [type |-> "custom_xml", target |-> Rel(<<"..", "customXml", "item1.xml">>), mode |-> "internal"],
       [type |-> "hyperlink", target |-> Rel(<<"http://example.com/">>), mode |-> "external"],
       [type |-> "office_document", target |-> Rel(<<"workbook.xml">>), mode |-> "internal"] >>

\* what a worksheet part may relate to
Hyperlink == [type |-> "hyperlink", target |-> Rel(<<"http://example.com/">>), mode |-> "external"]

Comments == [type |-> "comments", target |-> Rel(<<"..", "comments1.xml">>), mode |-> "internal"]

Drawing == [type |-> "drawings", target |-> Rel(<<"..", "drawings", "drawing1.xml">>), mode |-> "internal"]

\* a cell holding a string and no formula
StringCell(ref, value) == [ref |-> ref, type |-> "string", has_formula |-> FALSE, value |-> value]

\* cell formats: the font, fill, border and named style each refers to
ArialFormat == [font |-> "Arial", fill |-> "solid", border |-> "thin", style |-> "Normal"]

CourierFormat == [font |-> "Courier", fill |-> "solid", border |-> "thin", style |-> "Normal"]

\* the worksheets a workbook may hold: title, id, page setup, sheet state, the
\* relationships registered for the worksheet's part, its cells, and the
\* formats its cells have put into the stylesheet
SheetCatalog ==
    << [title |-> "Sheet1", id |-> 1, has_page_setup |-> FALSE, sheet_state |-> "visible", x14ac |-> FALSE,
        rels |-> <<>>,
        cells |-> <<StringCell("A1", "alpha"), StringCell("B1", "omega")>>,
        formats |-> <<ArialFormat>>],
       [title |-> "Sheet2", id |-> 2, has_page_setup |-> TRUE, sheet_state |-> "visible", x14ac |-> TRUE,
        rels |-> <<Hyperlink>>,
        cells |-> <<StringCell("A1", "")>>,
        formats |-> <<>>],
       [title |-> "Sheet3", id |-> 3, has_page_setup |-> TRUE, sheet_state |-> "hidden", x14ac |-> FALSE,
        rels |-> <<Comments, Drawing>>,
        cells |-> <<StringCell("C3", "beta")>>,
        formats |-> <<CourierFormat>>],
       [title |-> "Sheet4", id |-> 4, has_page_setup |-> TRUE, sheet_state |-> "very_hidden", x14ac |-> FALSE,
        rels |-> <<>>,
        cells |-> <<>>,
        formats |-> <<>>],
       [title |-> "Sheet5", id |-> 5, has_page_setup |-> FALSE, sheet_state |-> "hidden", x14ac |-> FALSE,
        rels |-> <<Hyperlink>>,
        cells |-> <<>>,
        formats |-> <<ArialFormat>>] >>

SheetFiles == <<"sheet1.xml", "sheet2.xml", "sheet3.xml", "sheet4.xml", "sheet5.xml">>

\* the runs of at most n consecutive entries of a catalog
Windows(catalog, n) ==
    { SubSeq(catalog, w[1], w[1] + w[2] - 1) :
        w \in { v \in (1..Len(catalog)) \X (0..n) : v[1] + v[2] - 1 <= Len(catalog) } }

(***************************************************************************)
(* xlnt::manifest.  The relationships in registration order; the content   *)
(* types by extension and by part.                                         *)
(***************************************************************************)
get_relationships(manifest, part) ==
    SelectSeq(manifest.relationships, LAMBDA r : r.source = part)

has_relationship(manifest, part, rel_id) ==
    \E i \in 1..Len(manifest.relationships) :
        /\ manifest.relationships[i].source = part
        /\ manifest.relationships[i].id = rel_id

Registered(source, kinds, first_id) ==
    [i \in 1..Len(kinds) |->
        Relationship(RelIds[first_id + i - 1], kinds[i].type, source,
                     kinds[i].target, kinds[i].mode)]

WorksheetKinds(sheets) ==
    [i \in 1..Len(sheets) |->
        [type |-> "worksheet",
         target |-> Rel(<<"worksheets", SheetFiles[sheets[i].id]>>),
         mode |-> "internal"]]

SheetPart(ws) == Rel(<<"xl", "worksheets", SheetFiles[ws.id]>>)

\* the relationships of the worksheet parts of sheets i.. , sheet after sheet
RECURSIVE SheetRelationships(_, _)
SheetRelationships(sheets, i) ==
    IF i > Len(sheets) THEN <<>>
    ELSE Registered(SheetPart(sheets[i]), sheets[i].rels, 1) \o SheetRelationships(sheets, i + 1)

\* the extensions with a default content type
DefaultTypes(root_kinds) ==
    << [extension |-> "rels", type |-> "application/vnd.openxmlformats-package.relationships+xml"],
       [extension |-> "xml", type |-> "application/xml"] >>
    \o (IF \E i \in 1..Len(root_kinds) : root_kinds[i].type = "thumbnail"
        THEN << [extension |-> "jpeg", type |-> "image/jpeg"] >>
        ELSE <<>>)

\* a part of the package with a content type of its own
HasOverride(r) ==
    /\ r.mode = "internal"
    /\ r.type \notin {"thumbnail", "hyperlink", "printer_settings", "custom_xml"}
    /\ ~(r.source = WorkbookPart /\ r.type = "office_document")

OverrideTypes(relationships) ==
    LET parts == SelectSeq(relationships, HasOverride)
    IN  [i \in 1..Len(parts) |->
            [part |-> append(parent(parts[i].source), parts[i].target),
             type |-> "application/vnd.openxmlformats." \o parts[i].type \o "+xml"]]

\* get_relationship_throws: whether manifest::get_relationship raises
\* key_not_found for an id the part does not hold (or returns some relationship)
MakeManifest(root_kinds, sheets, workbook_kinds, get_relationship_throws) ==
    LET package == Registered(RootPath, root_kinds, 1)
                   \o Registered(WorkbookPart, WorksheetKinds(sheets) \o workbook_kinds, 1)
    IN  [default_types |-> DefaultTypes(root_kinds),
         override_types |-> OverrideTypes(package),
         relationships |-> package \o SheetRelationships(sheets, 1),
         get_relationship_throws |-> get_relationship_throws]

\* the formats of sheets i.. , sheet after sheet
RECURSIVE SheetFormats(_, _)
SheetFormats(sheets, i) ==
    IF i > Len(sheets) THEN <<>>
    ELSE sheets[i].formats \o SheetFormats(sheets, i + 1)

\* the stylesheet: Courier is a font no collection holds
MakeStylesheet(sheets) ==
    [fonts |-> <<"Calibri", "Arial">>,
     fills |-> <<"none", "gray125", "solid">>,
     borders |-> <<"none", "thin">>,
     styles |-> <<"Normal">>,
     formats |-> SheetFormats(sheets, 1)]

MakeWorkbook(sheets) ==
    [worksheets |-> sheets,
     shared_strings |-> <<"alpha", "beta", "alpha">>,
     stylesheet |-> MakeStylesheet(sheets),
     sheet_title_rel_id_map_ |->
        [t \in { sheets[i].title : i \in 1..Len(sheets) } |->
            RelIds[CHOOSE i \in 1..Len(sheets) : sheets[i].title = t]],
     application |-> "Microsoft Excel",
     doc_security |-> "0",
     scale_crop |-> FALSE,
     x15 |-> FALSE,
     short_bools_ |-> TRUE,
     thumbnail |-> "thumbnail-bytes"]

IdStrings == <<"1", "2", "3", "4", "5">>

to_string(n) == IdStrings[n]

(***************************************************************************)
(* The archive (destination_): one entry per write_string call, with the   *)
(* call site that made it and, for a part read from a serializer buffer,   *)
(* the state of that buffer when it was read.                              *)
(***************************************************************************)
Entry(path, b, via) ==
    CHOOSE e \in { [path |-> path, toks |-> read.toks, depth |-> depth(read),
                    roots |-> roots(read), via |-> via] : read \in {b} } : TRUE

(***************************************************************************)
(* write_content_types                                                     *)
(***************************************************************************)
RECURSIVE write_default_types(_, _, _)
write_default_types(b, types, i) ==
    IF i > Len(types) THEN b
    ELSE write_default_types(
            end_element(attribute(attribute(start_element(b, "Default"),
                "Extension", types[i].extension), "ContentType", types[i].type)),
            types, i + 1)

RECURSIVE write_override_types(_, _, _)
write_override_types(b, types, i) ==
    IF i > Len(types) THEN b
    ELSE write_override_types(
            end_element(attribute(attribute(start_element(b, "Override"),
                "PartName", string(resolve(types[i].part, RootPath))),
                "ContentType", types[i].type)),
            types, i + 1)

\* [Content_Types].xml with the Override elements ahead of the Default elements
content_types_entry_overrides_first(manifest) ==
    LET xmlns == "http://schemas.openxmlformats.org/package/2006/content-types"
        b0 == namespace_decl(start_element(EmptyBuf, "Types"), xmlns, "")
        b1 == write_override_types(b0, manifest.override_types, 1)
        b2 == write_default_types(b1, manifest.default_types, 1)
    IN  Entry(Rel(<<"[Content_Types].xml">>), end_element(b2), "content_types")

content_types_entry(manifest) ==
    LET xmlns == "http://schemas.openxmlformats.org/package/2006/content-types"
        b0 == namespace_decl(start_element(EmptyBuf, "Types"), xmlns, "")
        b1 == write_default_types(b0, manifest.default_types, 1)
        b2 == write_override_types(b1, manifest.override_types, 1)
    IN  Entry(Rel(<<"[Content_Types].xml">>), end_element(b2), "content_types")

(***************************************************************************)
(* write_relationships                                                     *)
(***************************************************************************)
\* a side-file put beside its part, with no _rels directory
rels_path_beside_part(part) ==
    LET parent0 == parent(part)
        parent1 == IF is_absolute(parent0) THEN strip_leading_separator(parent0) ELSE parent0
    IN  append_string(parent1, filename(part) \o ".rels")

rels_path(part) ==
    LET parent0 == parent(part)
        parent1 == IF is_absolute(parent0) THEN strip_leading_separator(parent0) ELSE parent0
    IN  append_string(append_string(parent1, "_rels"), filename(part) \o ".rels")

\* Relationship elements whose Target is the archive path the target resolves to
RECURSIVE write_relationship_elements_resolved(_, _, _)
write_relationship_elements_resolved(b, relationships, i) ==
    IF i > Len(relationships) THEN b
    ELSE LET r == relationships[i]
             b0 == start_element(b, "Relationship")
             b1 == attribute(b0, "Id", r.id)
             b2 == attribute(b1, "Type", r.type)
             b3 == attribute(b2, "Target", string(append(parent(r.source), r.target)))
             b4 == IF r.mode = "external" THEN attribute(b3, "TargetMode", "External") ELSE b3
         IN  write_relationship_elements_resolved(end_element(b4), relationships, i + 1)

RECURSIVE write_relationship_elements(_, _, _)
write_relationship_elements(b, relationships, i) ==
    IF i > Len(relationships) THEN b
    ELSE LET r == relationships[i]
             b0 == start_element(b, "Relationship")
             b1 == attribute(b0, "Id", r.id)
             b2 == attribute(b1, "Type", r.type)
             b3 == attribute(b2, "Target", string(r.target))
             b4 == IF r.mode = "external" THEN attribute(b3, "TargetMode", "External") ELSE b3
         IN  write_relationship_elements(end_element(b4), relationships, i + 1)

relationships_entry(relationships, part) ==
    LET xmlns == "http://schemas.openxmlformats.org/package/2006/relationships"
        b0 == namespace_decl(start_element(EmptyBuf, "Relationships"), xmlns, "")
        b1 == write_relationship_elements(b0, relationships, 1)
    IN  Entry(rels_path(part), end_element(b1), "relationships")

\* the .rels file put ahead of everything written before it
write_relationships_first(archive, relationships, part) ==
    <<relationships_entry(relationships, part)>> \o archive

\* the archive after write_relationships: one more entry, whatever the relationships
write_relationships(archive, relationships, part) ==
    Append(archive, relationships_entry(relationships, part))

(***************************************************************************)
(* The generators of the root relationship targets.                        *)
(***************************************************************************)
write_core_properties(b) == b

\* write_bool: the spelling of a boolean under the workbook's short_bools_
write_bool(wb, boolean) ==
    IF wb.short_bools_
    THEN (IF boolean THEN "1" ELSE "0")
    ELSE (IF boolean THEN "true" ELSE "false")

write_extended_properties(b, wb) ==
    LET b0 == start_element(b, "Properties")
        b1 == namespace_decl(b0, "http://schemas.openxmlformats.org/officeDocument/2006/extended-properties", "xmlns")
        b2 == namespace_decl(b1, "http://schemas.openxmlformats.org/officeDocument/2006/docPropsVTypes", "vt")
        b3 == element(b2, "Application", wb.application)
        b4 == element(b3, "DocSecurity", wb.doc_security)
    IN  element(b4, "ScaleCrop", IF wb.scale_crop THEN "true" ELSE "false")

write_custom_properties(b) == end_element(start_element(b, "Properties"))

(***************************************************************************)
(* write_workbook, up to the end of the workbook element.                  *)
(***************************************************************************)
\* a visibility test that forgets has_page_setup()
is_visible_by_state_only(ws) == ws.sheet_state = "visible"

is_visible(ws) == ~ws.has_page_setup \/ ws.sheet_state = "visible"

\* a count that forgets the visibility test
num_visible_counts_every_sheet(wb) == Len(wb.worksheets)

num_visible(wb) ==
    Cardinality({ i \in 1..Len(wb.worksheets) : is_visible(wb.worksheets[i]) })

\* sheet_title_rel_id_map_[title]: operator[] adds a missing title with an empty id
\* a lookup written as an assignment: the title's id is overwritten
map_after_assignment(map, title) ==
    [t \in DOMAIN map \cup {title} |-> IF t = title THEN "" ELSE map[t]]

map_after_lookup(map, title) ==
    IF title \in DOMAIN map THEN map ELSE map @@ (title :> "")

write_sheet(b, ws, sheet_rel_id) ==
    LET b0 == start_element(b, "sheet")
        b1 == attribute(b0, "name", ws.title)
        b2 == attribute(b1, "sheetId", to_string(ws.id))
        b3 == IF ws.has_page_setup /\ ws.sheet_state = "hidden"
              THEN attribute(b2, "state", "hidden") ELSE b2
        b4 == attribute(b3, "r:id", sheet_rel_id)
    IN  end_element(b4)

\* the sheets loop from sheet i on; get_relationship (of the manifest, not in
\* this file) on an id its part does not have either throws or returns
RECURSIVE write_sheets(_, _, _, _, _, _)
write_sheets(b, wb, manifest, rel, i, miss_throws) ==
    IF i > Len(wb.worksheets)
    THEN [buf |-> b, workbook |-> wb, fault |-> "none"]
    ELSE LET ws == wb.worksheets[i]
             map == map_after_lookup(wb.sheet_title_rel_id_map_, ws.title)
             wb1 == [wb EXCEPT !.sheet_title_rel_id_map_ = map]
             sheet_rel_id == map[ws.title]
         IN  IF miss_throws /\ ~has_relationship(manifest, rel.source, sheet_rel_id)
             THEN [buf |-> b, workbook |-> wb1, fault |-> "key_not_found"]
             ELSE write_sheets(write_sheet(b, ws, sheet_rel_id), wb1, manifest,
                               rel, i + 1, miss_throws)

write_workbook_element(b, wb, manifest, rel, miss_throws) ==
    IF num_visible(wb) = 0
    THEN [buf |-> b, workbook |-> wb, fault |-> "no_visible_worksheets"]
    ELSE LET xmlns == "http://schemas.openxmlformats.org/spreadsheetml/2006/main"
             b0 == start_element(b, "workbook")
             b1 == namespace_decl(b0, xmlns, "")
             b2 == namespace_decl(b1, "http://schemas.openxmlformats.org/officeDocument/2006/relationships", "r")
             b3 == IF wb.x15
                   THEN namespace_decl(
                            attribute(
                                namespace_decl(b2, "http://schemas.openxmlformats.org/markup-compatibility/2006", "mc"),
                                "mc:Ignorable", "x15"),
                            "http://schemas.microsoft.com/office/spreadsheetml/2010/11/main", "x15")
                   ELSE b2
             b4 == start_element(b3, "sheets")
             r == write_sheets(b4, wb, manifest, rel, 1, miss_throws)
         IN  IF r.fault # "none" THEN r
             ELSE [r EXCEPT !.buf = end_element(end_element(r.buf))]

(***************************************************************************)
(* The generators of the workbook relationship targets.                    *)
(***************************************************************************)
write_worksheet(b, ws) ==
    LET xmlns == "http://schemas.openxmlformats.org/spreadsheetml/2006/main"
        b0 == start_element(b, "worksheet")
        b1 == namespace_decl(b0, xmlns, "")
        b2 == namespace_decl(b1, "http://schemas.openxmlformats.org/officeDocument/2006/relationships", "r")
        b3 == IF ws.x14ac
              THEN namespace_decl(
                       attribute(
                           namespace_decl(b2, "http://schemas.openxmlformats.org/markup-compatibility/2006", "mc"),
                           "mc:Ignorable", "x14ac"),
                       "http://schemas.microsoft.com/office/spreadsheetml/2009/9/ac", "x14ac")
              ELSE b2
        b4 == start_element(b3, "sheetData")
    IN  end_element(end_element(b4))

write_calculation_chain(b) == start_element(b, "calcChain")
write_chartsheet(b) == start_element(b, "chartsheet")
write_connections(b) == start_element(b, "connections")
write_custom_xml_mappings(b) == start_element(b, "MapInfo")
write_dialogsheet(b) == start_element(b, "dialogsheet")
write_external_workbook_references(b) == start_element(b, "externalLink")
write_metadata(b) == start_element(b, "metadata")
write_pivot_table(b) == start_element(b, "pivotTableDefinition")
write_shared_string_table(b) == start_element(b, "sst")
write_shared_workbook_revision_headers(b) == start_element(b, "headers")
write_styles(b) == start_element(b, "styleSheet")
write_theme(b) == start_element(b, "a:theme")
write_volatile_dependencies(b) == start_element(b, "volTypes")

\* a switch whose styles case has no break and falls through to the theme case
dispatch_workbook_falling_through(b, type) ==
    CASE type = "styles" -> write_theme(write_styles(b))
      [] type = "theme" -> write_theme(b)
      [] type = "shared_string_table" -> write_shared_string_table(b)
      [] type = "calculation_chain" -> write_calculation_chain(b)
      [] OTHER -> b

\* the switch of write_workbook for every type but worksheet
dispatch_workbook(b, type) ==
    CASE type = "calculation_chain" -> write_calculation_chain(b)
      [] type = "chartsheet" -> write_chartsheet(b)
      [] type = "connections" -> write_connections(b)
      [] type = "custom_xml_mappings" -> write_custom_xml_mappings(b)
      [] type = "dialogsheet" -> write_dialogsheet(b)
      [] type = "external_workbook_references" -> write_external_workbook_references(b)
      [] type = "metadata" -> write_metadata(b)
      [] type = "pivot_table" -> write_pivot_table(b)
      [] type = "shared_string_table" -> write_shared_string_table(b)
      [] type = "shared_workbook_revision_headers" -> write_shared_workbook_revision_headers(b)
      [] type = "styles" -> write_styles(b)
      [] type = "theme" -> write_theme(b)
      [] type = "volatile_dependencies" -> write_volatile_dependencies(b)
      [] OTHER -> b

\* an archive path that is the bare target, as at the root level
archive_path_unresolved(child_rel) == child_rel.target

\* the archive path of a workbook relationship's part
archive_path(child_rel) == append(parent(child_rel.source), child_rel.target)

\* the titles that sheet_title_rel_id_map_ maps to the id of a relationship
titles_of(wb, rel_id) ==
    { t \in DOMAIN wb.sheet_title_rel_id_map_ : wb.sheet_title_rel_id_map_[t] = rel_id }

get_sheet_by_title(wb, title) ==
    { wb.worksheets[i] : i \in { j \in 1..Len(wb.worksheets) : wb.worksheets[j].title = title } }

(***************************************************************************)
(* The producer.                                                           *)
(*   source_            the workbook being written                         *)
(*   manifest_          its manifest (source_.d_->manifest_)               *)
(*   destination_       the archive: the write_string calls so far         *)
(*   saved              the destination the archive was saved to           *)
(*   dest               the destination of the write() in progress         *)
(*   serializer_        what the current-serializer pointer refers to      *)
(*   serializer_stream  the buffer of the root relationship being written  *)
(*   root_rels, ri      populate_archive's relationships and loop position *)
(*   workbook_rels, ci  write_workbook's relationships and loop position   *)
(*   pc, fault          where the call is, and the exception that left it  *)
(*   previous           the archives of the producers that ran before      *)
(*   serializer_uses    what serializer_ referred to when a generator wrote*)
(***************************************************************************)
VARIABLES source_, manifest_, destination_, saved, dest, serializer_,
          serializer_stream, root_rels, ri, workbook_rels, ci, pc, fault, previous,
          serializer_uses

vars == <<source_, manifest_, destination_, saved, dest, serializer_,
          serializer_stream, root_rels, ri, workbook_rels, ci, pc, fault, previous,
          serializer_uses>>

\* write_workbook looks up, under the package root, an id the root does not hold
MissPossible(manifest, wb) ==
    LET rels == get_relationships(manifest, RootPath)
    IN  \E i \in 1..Len(rels) :
        \E title \in DOMAIN wb.sheet_title_rel_id_map_ :
            /\ rels[i].type = "office_document"
            /\ ~has_relationship(manifest, rels[i].source, wb.sheet_title_rel_id_map_[title])

Init ==
    \E sheets \in Windows(SheetCatalog, MaxSheets) :
    \E root_kinds \in Windows(RootCatalog, MaxRootRels) :
    \E workbook_kinds \in Windows(WorkbookCatalog, MaxWbRels) :
    \E get_relationship_throws \in BOOLEAN :
        /\ source_ = MakeWorkbook(sheets)
        /\ manifest_ = MakeManifest(root_kinds, sheets, workbook_kinds, get_relationship_throws)
        /\ get_relationship_throws \/ MissPossible(manifest_, source_)
        /\ previous = <<>>
        /\ serializer_uses = {}
        /\ destination_ = <<>>
        /\ saved = "none"
        /\ dest = "none"
        /\ serializer_ = "unset"
        /\ serializer_stream = EmptyBuf
        /\ root_rels = <<>>
        /\ ri = 0
        /\ workbook_rels = <<>>
        /\ ci = 0
        /\ pc = "constructed"
        /\ fault = "none"

\* write(destination): the three overloads differ in the destination only
write(destination) ==
    /\ pc = "constructed"
    /\ pc' = "populate_archive"
    /\ dest' = destination
    /\ UNCHANGED <<previous, serializer_uses, source_, manifest_, destination_, saved, serializer_,
                   serializer_stream, root_rels, ri, workbook_rels, ci, fault>>

write_path == write("path")

write_stream == write("stream")

write_vector == write("vector")

\* populate_archive: write_content_types()
populate_content_types ==
    /\ pc = "populate_archive"
    /\ destination_' = Append(destination_, content_types_entry(manifest_))
    /\ pc' = "root_relationships"
    /\ UNCHANGED <<previous, serializer_uses, source_, manifest_, saved, dest, serializer_, serializer_stream,
                   root_rels, ri, workbook_rels, ci, fault>>

\* populate_archive: the root relationships and their .rels file
populate_root_relationships ==
    /\ pc = "root_relationships"
    /\ root_rels' = get_relationships(manifest_, RootPath)
    /\ destination_' = write_relationships(destination_, root_rels', RootPath)
    /\ ri' = 1
    /\ pc' = "root_loop"
    /\ UNCHANGED <<previous, serializer_uses, source_, manifest_, saved, dest, serializer_, serializer_stream,
                   workbook_rels, ci, fault>>

\* the switch of populate_archive for every type but office_document
dispatch_root(b, type, wb) ==
    CASE type = "core_properties" -> write_core_properties(b)
      [] type = "extended_properties" -> write_extended_properties(b, wb)
      [] type = "custom_properties" -> write_custom_properties(b)
      [] OTHER -> b

write_thumbnail(archive, wb, rel) ==
    Append(archive, [path |-> rel.target, toks |-> <<Tok("bytes", "", wb.thumbnail)>>,
                     depth |-> 0, roots |-> 0, via |-> "thumbnail"])

\* a pass of populate_archive's loop binds serializer_ to its own serializer
bind_serializer(current) == "serializer"

\* serializer(): a generator called from loop `level` writes through serializer_
\* whenever it writes at all
serializer(uses, level, through, written) ==
    IF written = EmptyBuf THEN uses
    ELSE uses \cup {[level |-> level, through |-> through]}

\* a buffer written to the archive for a thumbnail as for any other part
write_document_always(type) == TRUE

\* write_document: the thumbnail clears it
write_document(type) == type # "thumbnail"

\* one pass of populate_archive's loop for a relationship that is no office_document
populate_root_part ==
    /\ pc = "root_loop"
    /\ ri <= Len(root_rels)
    /\ root_rels[ri].type # "office_document"
    /\ LET rel == root_rels[ri]
           buf == dispatch_root(EmptyBuf, rel.type, source_)
           archive == IF rel.type = "thumbnail"
                      THEN write_thumbnail(destination_, source_, rel)
                      ELSE destination_
       IN  destination_' = IF write_document(rel.type)
                           THEN Append(archive, Entry(rel.target, buf, "root_part"))
                           ELSE archive
    /\ serializer_uses' = serializer(serializer_uses, "populate_archive",
                                     bind_serializer(serializer_),
                                     dispatch_root(EmptyBuf, root_rels[ri].type, source_))
    /\ serializer_' = "destroyed"
    /\ ri' = ri + 1
    /\ UNCHANGED <<previous, source_, manifest_, saved, dest, serializer_stream, root_rels,
                   workbook_rels, ci, pc, fault>>

\* a write_workbook that hands the workbook part to the archive as soon as its
\* XML is complete, ahead of its .rels file and its children
write_workbook_begin_writing_part ==
    /\ pc = "root_loop"
    /\ ri <= Len(root_rels)
    /\ root_rels[ri].type = "office_document"
    /\ \E r \in {write_workbook_element(EmptyBuf, source_, manifest_, root_rels[ri],
                                         manifest_.get_relationship_throws)} :
            /\ source_' = r.workbook
            /\ fault' = r.fault
            /\ serializer_uses' = serializer(serializer_uses, "populate_archive",
                                             bind_serializer(serializer_), r.buf)
            /\ IF r.fault = "none"
               THEN /\ pc' = "workbook_relationships"
                    /\ serializer_' = bind_serializer(serializer_)
                    /\ serializer_stream' = r.buf
                    /\ destination_' = Append(destination_,
                                              Entry(root_rels[ri].target, r.buf, "root_part"))
               ELSE /\ pc' = "faulted"
                    /\ serializer_' = "destroyed"
                    /\ serializer_stream' = EmptyBuf
                    /\ destination_' = destination_
    /\ UNCHANGED <<previous, manifest_, saved, dest, root_rels, ri, workbook_rels, ci>>

\* populate_archive's loop reaches an office_document: write_workbook up to the
\* end of the workbook element, or up to the exception that leaves it
write_workbook_begin ==
    /\ pc = "root_loop"
    /\ ri <= Len(root_rels)
    /\ root_rels[ri].type = "office_document"
    /\ LET r == write_workbook_element(EmptyBuf, source_, manifest_, root_rels[ri],
                                        manifest_.get_relationship_throws)
        IN  /\ source_' = r.workbook
            /\ fault' = r.fault
            /\ serializer_uses' = serializer(serializer_uses, "populate_archive",
                                             bind_serializer(serializer_), r.buf)
            /\ IF r.fault = "none"
               THEN /\ pc' = "workbook_relationships"
                    /\ serializer_' = bind_serializer(serializer_)
                    /\ serializer_stream' = r.buf
               ELSE /\ pc' = "faulted"
                    /\ serializer_' = "destroyed"
                    /\ serializer_stream' = EmptyBuf
    /\ UNCHANGED <<previous, manifest_, destination_, saved, dest, root_rels, ri, workbook_rels, ci>>

\* a write_workbook that writes the workbook part itself, ahead of its .rels
\* file, though populate_archive writes the part again on return
write_workbook_relationships_after_part ==
    /\ pc = "workbook_relationships"
    /\ workbook_rels' = get_relationships(manifest_, root_rels[ri].target)
    /\ destination_' = write_relationships(
            Append(destination_, Entry(root_rels[ri].target, serializer_stream, "root_part")),
            workbook_rels', root_rels[ri].target)
    /\ ci' = 1
    /\ pc' = "workbook_loop"
    /\ UNCHANGED <<previous, serializer_uses, source_, manifest_, saved, dest, serializer_, serializer_stream,
                   root_rels, ri, fault>>

\* write_workbook: the workbook's relationships and their .rels file
write_workbook_relationships ==
    /\ pc = "workbook_relationships"
    /\ workbook_rels' = get_relationships(manifest_, root_rels[ri].target)
    /\ destination_' = write_relationships(destination_, workbook_rels', root_rels[ri].target)
    /\ ci' = 1
    /\ pc' = "workbook_loop"
    /\ UNCHANGED <<previous, serializer_uses, source_, manifest_, saved, dest, serializer_, serializer_stream,
                   root_rels, ri, fault>>

\* a pass of write_workbook's loop that leaves serializer_ as it finds it
child_serializer_unbound(current) == current

\* a pass of write_workbook's loop binds serializer_ to its own child_serializer
bind_child_serializer(current) == "child_serializer"

\* the switch of write_workbook; ws is the sheet write_worksheet has found
dispatch_child(b, type, ws) ==
    IF type = "worksheet" THEN write_worksheet(b, ws) ELSE dispatch_workbook(b, type)

\* a pass of write_workbook's loop that writes a part to the archive only if
\* its generator has written something
write_child_part_unless_empty(child_rel, ws) ==
    /\ serializer_stream' = serializer_stream
    /\ destination_' =
          IF dispatch_child(EmptyBuf, child_rel.type, ws) = EmptyBuf
          THEN destination_
          ELSE Append(destination_,
                      Entry(archive_path(child_rel),
                            dispatch_child(EmptyBuf, child_rel.type, ws), "workbook_part"))
    /\ serializer_' = "destroyed"
    /\ serializer_uses' = serializer(serializer_uses, "write_workbook",
                                     bind_child_serializer(serializer_),
                                     dispatch_child(EmptyBuf, child_rel.type, ws))
    /\ ci' = ci + 1
    /\ UNCHANGED <<previous, source_, manifest_, saved, dest, root_rels, ri,
                   workbook_rels, pc, fault>>

\* one pass of write_workbook's loop: the generator writes through
\* serializer_, and the pass's child_serializer_stream goes to the archive
write_child_part(child_rel, ws) ==
    LET bound == bind_child_serializer(serializer_)
        child_serializer_stream == IF bound = "child_serializer"
                                   THEN dispatch_child(EmptyBuf, child_rel.type, ws)
                                   ELSE EmptyBuf
    IN  /\ serializer_stream' = IF bound = "serializer"
                                THEN dispatch_child(serializer_stream, child_rel.type, ws)
                                ELSE serializer_stream
        /\ destination_' = Append(destination_,
                Entry(archive_path(child_rel), child_serializer_stream, "workbook_part"))
        /\ serializer_' = IF bound = "child_serializer" THEN "destroyed" ELSE bound
        /\ serializer_uses' = serializer(serializer_uses, "write_workbook", bound,
                                         dispatch_child(EmptyBuf, child_rel.type, ws))
        /\ ci' = ci + 1
        /\ UNCHANGED <<previous, source_, manifest_, saved, dest, root_rels, ri,
                       workbook_rels, pc, fault>>

\* an exception, or the end of the process, in the middle of write_workbook's loop
leave_child_part(to, with) ==
    /\ pc' = to
    /\ fault' = with
    /\ serializer_' = "destroyed"
    /\ serializer_stream' = EmptyBuf
    /\ UNCHANGED <<previous, serializer_uses, source_, manifest_, destination_, saved, dest, root_rels, ri,
                   workbook_rels, ci>>

\* a loop that follows an office_document relationship of the workbook back
\* into the workbook and never gets past it
write_workbook_child_descending ==
    /\ pc = "workbook_loop"
    /\ ci <= Len(workbook_rels)
    /\ workbook_rels[ci].type # "worksheet"
    /\ IF workbook_rels[ci].type = "office_document"
       THEN UNCHANGED vars
       ELSE write_child_part(workbook_rels[ci], <<>>)

\* one pass of write_workbook's loop for a relationship that is no worksheet
write_workbook_child ==
    /\ pc = "workbook_loop"
    /\ ci <= Len(workbook_rels)
    /\ workbook_rels[ci].type # "worksheet"
    /\ write_child_part(workbook_rels[ci], <<>>)

\* one pass of write_workbook's loop for a worksheet.  find_if over the title
\* map is dereferenced unchecked: with no title mapped to the relationship's id
\* the behaviour is undefined (the process ends, get_sheet_by_title throws on
\* the title read, or some sheet is found)
write_workbook_worksheet ==
    /\ pc = "workbook_loop"
    /\ ci <= Len(workbook_rels)
    /\ workbook_rels[ci].type = "worksheet"
    /\ LET child_rel == workbook_rels[ci]
           titles == titles_of(source_, child_rel.id)
       IN  IF titles # {}
           THEN \E title \in titles :
                   IF get_sheet_by_title(source_, title) = {}
                   THEN leave_child_part("faulted", "key_not_found")
                   ELSE \E ws \in get_sheet_by_title(source_, title) :
                           write_child_part(child_rel, ws)
           ELSE \/ leave_child_part("crashed", "none")
                \/ leave_child_part("faulted", "key_not_found")
                \/ \E i \in 1..Len(source_.worksheets) :
                       write_child_part(child_rel, source_.worksheets[i])

\* a write_workbook that ends the workbook element after its loop, through
\* whatever serializer_ refers to by then
write_workbook_end_after_loop ==
    /\ pc = "workbook_loop"
    /\ ci > Len(workbook_rels)
    /\ destination_' = Append(destination_,
                              Entry(root_rels[ri].target, serializer_stream, "root_part"))
    /\ serializer_uses' = serializer(serializer_uses, "populate_archive", serializer_,
                                     end_element(EmptyBuf))
    /\ serializer_' = "destroyed"
    /\ serializer_stream' = EmptyBuf
    /\ workbook_rels' = <<>>
    /\ ci' = 0
    /\ ri' = ri + 1
    /\ pc' = "root_loop"
    /\ UNCHANGED <<previous, source_, manifest_, saved, dest, root_rels, fault>>

\* write_workbook returns; populate_archive writes the workbook's buffer
write_workbook_end ==
    /\ pc = "workbook_loop"
    /\ ci > Len(workbook_rels)
    /\ destination_' = Append(destination_,
                              Entry(root_rels[ri].target, serializer_stream, "root_part"))
    /\ serializer_' = "destroyed"
    /\ serializer_stream' = EmptyBuf
    /\ workbook_rels' = <<>>
    /\ ci' = 0
    /\ ri' = ri + 1
    /\ pc' = "root_loop"
    /\ UNCHANGED <<previous, serializer_uses, source_, manifest_, saved, dest, root_rels, fault>>

\* a write() that goes on to save after an exception
populate_archive_left ==
    \/ pc = "root_loop" /\ ri > Len(root_rels)
    \/ pc = "faulted"

\* populate_archive has returned to write()
populate_archive_returned == pc = "root_loop" /\ ri > Len(root_rels)

\* write(destination): destination_.save(destination)
write_save ==
    /\ populate_archive_returned
    /\ saved' = dest
    /\ pc' = "done"
    /\ UNCHANGED <<previous, serializer_uses, source_, manifest_, destination_, dest, serializer_, serializer_stream,
                   root_rels, ri, workbook_rels, ci, fault>>

Next ==
    \/ write_path
    \/ write_stream
    \/ write_vector
    \/ populate_content_types
    \/ populate_root_relationships
    \/ populate_root_part
    \/ write_workbook_begin
    \/ write_workbook_relationships
    \/ write_workbook_child
    \/ write_workbook_worksheet
    \/ write_workbook_end
    \/ write_save

Spec == Init /\ [][Next]_vars

\* a producer that starts from the archive of the producer before it
construct_again_keeping_archive ==
    /\ pc \in {"done", "faulted", "crashed"}
    /\ previous = <<>>
    /\ previous' = Append(previous, [archive |-> destination_, pc |-> pc, fault |-> fault])
    /\ saved' = "none"
    /\ dest' = "path"
    /\ serializer_' = "unset"
    /\ serializer_stream' = EmptyBuf
    /\ root_rels' = <<>>
    /\ ri' = 0
    /\ workbook_rels' = <<>>
    /\ ci' = 0
    /\ pc' = "populate_archive"
    /\ fault' = "none"
    /\ serializer_uses' = {}
    /\ UNCHANGED <<source_, manifest_, destination_>>

\* once the write() of one producer has ended, a fresh producer is constructed
\* for the same workbook and its write(path) is called
construct_again ==
    /\ pc \in {"done", "faulted", "crashed"}
    /\ previous = <<>>
    /\ previous' = Append(previous, [archive |-> destination_, pc |-> pc, fault |-> fault])
    /\ destination_' = <<>>
    /\ saved' = "none"
    /\ dest' = "path"
    /\ serializer_' = "unset"
    /\ serializer_stream' = EmptyBuf
    /\ root_rels' = <<>>
    /\ ri' = 0
    /\ workbook_rels' = <<>>
    /\ ci' = 0
    /\ pc' = "populate_archive"
    /\ fault' = "none"
    /\ serializer_uses' = {}
    /\ UNCHANGED <<source_, manifest_>>

\* write() is one sequential call: a step that can be taken is taken
SpecFair == Spec /\ WF_vars(Next)

NextTwice ==
    \/ Next
    \/ construct_again

SpecTwice == Init /\ [][NextTwice]_vars

(***************************************************************************)
(* Properties.                                                             *)
(***************************************************************************)
Entries == { destination_[i] : i \in 1..Len(destination_) }

Sheets == { source_.worksheets[i] : i \in 1..Len(source_.worksheets) }

ManifestRels(part) ==
    LET rels == get_relationships(manifest_, part)
    IN  { rels[i] : i \in 1..Len(rels) }

\* a sheet is not visible when its page setup says hidden or very hidden
NotVisible(ws) == ws.has_page_setup /\ ws.sheet_state \in {"hidden", "very_hidden"}

NoVisibleSheet == \A ws \in Sheets : NotVisible(ws)

\* write_workbook has been called
WorkbookEntered ==
    \E i \in 1..Len(root_rels) :
        /\ root_rels[i].type = "office_document"
        /\ \/ i < ri
           \/ i = ri /\ pc \in {"workbook_relationships", "workbook_loop", "faulted", "crashed"}

\* the directory of a part and the name of its file, from the components
DirOf(p) == SubSeq(p.parts, 1, Len(p.parts) - 1)

NameOf(p) == p.parts[Len(p.parts)]

\* where the side-file of a part belongs
SideFile(part) ==
    IF part.parts = <<>> THEN Rel(<<"_rels", ".rels">>)
    ELSE Rel(DirOf(part) \o <<"_rels", NameOf(part) \o ".rels">>)

\* where the part of a relationship belongs: the target, read from the
\* directory of the source
RECURSIVE Resolved(_, _)
Resolved(dir, target) ==
    IF target = <<>> THEN dir
    ELSE IF Head(target) = "." THEN Resolved(dir, Tail(target))
    ELSE IF Head(target) = ".." /\ dir # <<>>
         THEN Resolved(SubSeq(dir, 1, Len(dir) - 1), Tail(target))
         ELSE Resolved(Append(dir, Head(target)), Tail(target))

PartOf(r) == [abs |-> r.source.abs, parts |-> Resolved(DirOf(r.source), r.target.parts)]

\* the paths of everything write_workbook writes for the workbook of the manifest
WorkbookPaths ==
    UNION { {r.target, SideFile(r.target)} \cup { PartOf(c) : c \in ManifestRels(r.target) } :
            r \in { q \in ManifestRels(RootPath) : q.type = "office_document" } }

\* C1: once write_workbook has been called, the no_visible_worksheets fault is
\* raised if and only if no worksheet is visible (a worksheet is visible unless
\* its page setup says hidden or very hidden), and the fault is never raised
\* while some worksheet is visible.
C1_FaultIffNoVisibleSheet ==
    /\ fault = "no_visible_worksheets" => NoVisibleSheet /\ WorkbookEntered
    /\ WorkbookEntered => (fault = "no_visible_worksheets" <=> NoVisibleSheet)

C1_Witness ==
    /\ pc = "faulted"
    /\ fault = "no_visible_worksheets"
    /\ Len(source_.worksheets) = 2
    /\ NoVisibleSheet

\* C2: with no visible worksheet, and whenever the no_visible_worksheets fault
\* has been raised, the archive holds no entry at the workbook part, at the
\* workbook's .rels file or at the part of any workbook relationship.
C2_NoWorkbookBytesOnFault ==
    (NoVisibleSheet \/ fault = "no_visible_worksheets") =>
        \A e \in Entries : e.path \notin WorkbookPaths

C2_Witness ==
    /\ pc = "faulted"
    /\ fault = "no_visible_worksheets"
    /\ Len(destination_) = 3
    /\ ManifestRels(WorkbookPart) # {}

\* C3: whichever overload of write() runs, save is invoked only after
\* populate_archive has gone through every root relationship without a fault;
\* after a fault the archive is never saved.
C3_SaveOnlyAfterPopulate ==
    /\ saved # "none" =>
          /\ saved = dest
          /\ fault = "none"
          /\ pc = "done"
          /\ ri > Len(root_rels)
          /\ root_rels = get_relationships(manifest_, RootPath)
    /\ (fault # "none" \/ pc \in {"faulted", "crashed"}) => saved = "none"
    /\ pc = "done" => saved \in {"path", "stream", "vector"}

C3_Witness ==
    /\ pc = "done"
    /\ saved = "vector"
    /\ \E e \in Entries : e.via = "workbook_part"

\* the types each level of dispatch has a case for
RootRecognized ==
    {"core_properties", "extended_properties", "custom_properties", "office_document", "thumbnail"}

WorkbookRecognized ==
    {"calculation_chain", "chartsheet", "connections", "custom_xml_mappings", "dialogsheet",
     "external_workbook_references", "metadata", "pivot_table", "shared_string_table",
     "shared_workbook_revision_headers", "styles", "theme", "volatile_dependencies", "worksheet"}

OfficeDocuments == { r \in ManifestRels(RootPath) : r.type = "office_document" }

HasTok(e, k, n, v) == \E i \in 1..Len(e.toks) : e.toks[i] = Tok(k, n, v)

\* C4: a relationship of a type its level of dispatch has no case for is
\* skipped: no fault, and no entry in the archive at its target path.
C4_UnrecognizedNotWritten ==
    /\ \A r \in ManifestRels(RootPath) :
          r.type \notin RootRecognized => \A e \in Entries : e.path # r.target
    /\ \A w \in OfficeDocuments : \A c \in ManifestRels(w.target) :
          (c.type \notin WorkbookRecognized /\ PartOf(c) # w.target) =>
              \A e \in Entries : e.path # PartOf(c)

\* C5: an external relationship is echoed into the .rels file of its source
\* part and no entry is written to the archive at its target.
C5_ExternalNotDispatched ==
    /\ \A r \in ManifestRels(RootPath) : r.mode = "external" =>
          /\ \A e \in Entries : e.path # r.target
          /\ \A e \in Entries : e.path = SideFile(RootPath) =>
                HasTok(e, "attr", "Target", string(r.target))
                /\ HasTok(e, "attr", "TargetMode", "External")
    /\ \A w \in OfficeDocuments : \A c \in ManifestRels(w.target) : c.mode = "external" =>
          /\ \A e \in Entries : e.path # PartOf(c)
          /\ \A e \in Entries : e.path = SideFile(w.target) =>
                HasTok(e, "attr", "Target", string(c.target))
                /\ HasTok(e, "attr", "TargetMode", "External")

\* C6: no .rels entry is written for the package root or the workbook part
\* when that part has no relationship in the manifest.
C6_NoRelsFileWithoutRelationships ==
    /\ ManifestRels(RootPath) = {} => \A e \in Entries : e.path # SideFile(RootPath)
    /\ \A w \in OfficeDocuments :
          ManifestRels(w.target) = {} => \A e \in Entries : e.path # SideFile(w.target)

\* C7: a part read from its buffer into the archive has every started element
\* ended.
C7_BufferClosedWhenRead ==
    \A e \in Entries : e.via \in {"root_part", "workbook_part"} => e.depth = 0

\* C8: the part written for a relationship of a recognized type holds exactly
\* one top-level element.
C8_OneTopLevelElement ==
    /\ \A r \in ManifestRels(RootPath) :
          r.type \in RootRecognized \ {"thumbnail"} =>
              \A e \in Entries : (e.via = "root_part" /\ e.path = r.target) => e.roots = 1
    /\ \A w \in OfficeDocuments : \A c \in ManifestRels(w.target) :
          c.type \in WorkbookRecognized =>
              \A e \in Entries : (e.via = "workbook_part" /\ e.path = PartOf(c)) => e.roots = 1

\* the entry of the child parts written so far in write_workbook's loop, and the
\* entry of the workbook's .rels file before them
ChildEntry(j) == destination_[Len(destination_) - (ci - 1) + j]

WorkbookRelsEntry == destination_[Len(destination_) - (ci - 1)]

\* C9: the part of every relationship of the workbook part is written at the
\* parent directory of the relationship's source joined with its target,
\* normalized; for xl/workbook.xml and worksheets/sheet1.xml that is
\* xl/worksheets/sheet1.xml.
C9_ChildArchivePath ==
    pc = "workbook_loop" =>
        /\ workbook_rels = get_relationships(manifest_, WorkbookPart)
        /\ \A j \in 1..(ci - 1) :
              /\ ChildEntry(j).via = "workbook_part"
              /\ ChildEntry(j).path = PartOf(workbook_rels[j])
              /\ (/\ workbook_rels[j].source = Rel(<<"xl", "workbook.xml">>)
                  /\ workbook_rels[j].target = Rel(<<"worksheets", "sheet1.xml">>))
                 => ChildEntry(j).path = Rel(<<"xl", "worksheets", "sheet1.xml">>)

C9_Witness ==
    /\ pc = "workbook_loop"
    /\ ci = 3
    /\ ChildEntry(1).path = Rel(<<"xl", "worksheets", "sheet1.xml">>)
    /\ workbook_rels[2].target = Rel(<<"..", "customXml", "item1.xml">>)
    /\ ChildEntry(2).path = Rel(<<"customXml", "item1.xml">>)

\* C10: the .rels file of a part is written at parent_dir(part)/_rels/
\* (filename(part) + ".rels"): _rels/.rels for the package root and
\* xl/_rels/workbook.xml.rels for xl/workbook.xml, under the directory the
\* workbook's child parts are resolved against.
C10_RelsPath ==
    /\ pc \notin {"constructed", "populate_archive", "root_relationships"} =>
          /\ destination_[2].via = "relationships"
          /\ destination_[2].path = Rel(<<"_rels", ".rels">>)
    /\ pc = "workbook_loop" =>
          /\ WorkbookRelsEntry.via = "relationships"
          /\ WorkbookRelsEntry.path = SideFile(root_rels[ri].target)
          /\ root_rels[ri].target = Rel(<<"xl", "workbook.xml">>)
                => WorkbookRelsEntry.path = Rel(<<"xl", "_rels", "workbook.xml.rels">>)
          /\ \A j \in 1..Len(workbook_rels) :
                DirOf(workbook_rels[j].source)
                    = SubSeq(WorkbookRelsEntry.path.parts, 1, Len(WorkbookRelsEntry.path.parts) - 2)

C10_Witness ==
    /\ pc = "workbook_loop"
    /\ ci = 3
    /\ WorkbookRelsEntry.path = Rel(<<"xl", "_rels", "workbook.xml.rels">>)
    /\ ChildEntry(2).path = Rel(<<"xl", "styles.xml">>)
    /\ destination_[2].path = Rel(<<"_rels", ".rels">>)

\* the positions in an archive entry at which an element named n starts
Starts(e, n) == { i \in 1..Len(e.toks) : e.toks[i].k = "start" /\ e.toks[i].n = n }

NthStart(e, n, k) ==
    LET starts == Starts(e, n)
    IN  CHOOSE i \in starts : Cardinality({ j \in starts : j <= i }) = k

\* what the k-th element named n, an element with no children, holds between
\* its start and its end
Content(e, n, k) ==
    LET from == NthStart(e, n, k)
        to == CHOOSE j \in (from + 1)..Len(e.toks) :
                /\ e.toks[j].k = "end"
                /\ \A m \in (from + 1)..(j - 1) : e.toks[m].k # "end"
    IN  SubSeq(e.toks, from + 1, to - 1)

\* the entry lists the relationships: one Relationship element each, in order
ListsRelationships(e, relationships) ==
    /\ Cardinality(Starts(e, "Relationship")) = Len(relationships)
    /\ \A k \in 1..Len(relationships) :
          Content(e, "Relationship", k) =
              << Tok("attr", "Id", relationships[k].id),
                 Tok("attr", "Type", relationships[k].type),
                 Tok("attr", "Target", string(relationships[k].target)) >>
              \o (IF relationships[k].mode = "external"
                  THEN << Tok("attr", "TargetMode", "External") >>
                  ELSE <<>>)

\* C11: a .rels file holds exactly one Relationship element per relationship
\* of its part, in the manifest's order, with the relationship's id, type and
\* target as the manifest has them (the target is not resolved), and with
\* TargetMode="External" exactly for the external relationships.
C11_RelationshipsListed ==
    /\ pc \notin {"constructed", "populate_archive", "root_relationships"} =>
          ListsRelationships(destination_[2], get_relationships(manifest_, RootPath))
    /\ pc = "workbook_loop" =>
          ListsRelationships(WorkbookRelsEntry,
                             get_relationships(manifest_, root_rels[ri].target))

C11_Witness ==
    /\ pc = "workbook_loop"
    /\ Len(workbook_rels) = 3
    /\ HasTok(WorkbookRelsEntry, "attr", "Target", "worksheets/sheet2.xml")
    /\ HasTok(WorkbookRelsEntry, "attr", "Target", "../customXml/item1.xml")
    /\ HasTok(WorkbookRelsEntry, "attr", "TargetMode", "External")
    /\ Cardinality(Starts(destination_[2], "Relationship")) = 2

\* C12: [Content_Types].xml holds exactly one Default element per extension
\* with a default content type and exactly one Override element per part with
\* an overridden content type; every Default comes before every Override, and
\* within each group the elements follow the manifest's order.
C12_ContentTypesListed ==
    pc \notin {"constructed", "populate_archive"} =>
        LET e == destination_[1]
            defaults == manifest_.default_types
            overrides == manifest_.override_types
        IN  /\ e.via = "content_types"
            /\ Cardinality(Starts(e, "Default")) = Len(defaults)
            /\ Cardinality(Starts(e, "Override")) = Len(overrides)
            /\ \A k \in 1..Len(defaults) :
                  Content(e, "Default", k)[1] = Tok("attr", "Extension", defaults[k].extension)
            /\ \A k \in 1..Len(overrides) :
                  Content(e, "Override", k)[1] =
                      Tok("attr", "PartName", "/" \o join(overrides[k].part.parts))
            /\ \A i \in Starts(e, "Default") : \A j \in Starts(e, "Override") : i < j

C12_Witness ==
    /\ pc = "root_relationships"
    /\ Cardinality(Starts(destination_[1], "Default")) = 3
    /\ Cardinality(Starts(destination_[1], "Override")) = 5
    /\ Content(destination_[1], "Override", 2)[1] =
           Tok("attr", "PartName", "/xl/worksheets/sheet1.xml")

\* the parts written for the relationships of the package root, in the order
\* they were written
RootPartEntries == SelectSeq(destination_, LAMBDA e : e.via \in {"root_part", "thumbnail"})

\* the passes of populate_archive's loop that have ended
RootPassesDone ==
    IF pc \in {"constructed", "populate_archive", "root_relationships"} THEN 0 ELSE ri - 1

\* C13: the writes to the archive start with [Content_Types].xml, then the
\* root .rels file, then the parts of the root relationships; the parts of
\* the relationships of one source part are written in the manifest's order.
C13_WriteOrder ==
    /\ pc \notin {"constructed", "populate_archive"} =>
          destination_[1].path = Rel(<<"[Content_Types].xml">>)
    /\ pc \notin {"constructed", "populate_archive", "root_relationships"} =>
          /\ destination_[2].path = Rel(<<"_rels", ".rels">>)
          /\ \A i \in 3..Len(destination_) :
                destination_[i].via \in {"root_part", "thumbnail", "relationships", "workbook_part"}
    /\ Len(RootPartEntries) = RootPassesDone
    /\ \A i \in 1..RootPassesDone :
          RootPartEntries[i].path = get_relationships(manifest_, RootPath)[i].target
    /\ pc = "workbook_loop" =>
          \A j \in 1..(ci - 1) :
              ChildEntry(j).path =
                  PartOf(get_relationships(manifest_, root_rels[ri].target)[j])

C13_Witness ==
    /\ pc = "done"
    /\ Len(destination_) = 8
    /\ Len(RootPartEntries) = 2
    /\ RootPartEntries[1].via = "thumbnail"
    /\ RootPartEntries[2].path = WorkbookPart
    /\ destination_[5].path = Rel(<<"xl", "worksheets", "sheet1.xml">>)
    /\ destination_[6].path = Rel(<<"xl", "styles.xml">>)

\* the element each generator of write_workbook's switch starts
GeneratorElement(type) ==
    CASE type = "calculation_chain" -> "calcChain"
      [] type = "chartsheet" -> "chartsheet"
      [] type = "connections" -> "connections"
      [] type = "custom_xml_mappings" -> "MapInfo"
      [] type = "dialogsheet" -> "dialogsheet"
      [] type = "external_workbook_references" -> "externalLink"
      [] type = "metadata" -> "metadata"
      [] type = "pivot_table" -> "pivotTableDefinition"
      [] type = "shared_string_table" -> "sst"
      [] type = "shared_workbook_revision_headers" -> "headers"
      [] type = "styles" -> "styleSheet"
      [] type = "theme" -> "a:theme"
      [] type = "volatile_dependencies" -> "volTypes"
      [] type = "worksheet" -> "worksheet"

\* the first thing in an archive entry
First(e) == IF e.toks = <<>> THEN Tok("none", "", "") ELSE e.toks[1]

\* the passes of write_workbook's loop that have called their generator: the
\* ones that ended, and the one an exception or the end of the process left
ChildPassesEntered == IF pc \in {"faulted", "crashed"} THEN ci ELSE ci - 1

\* the workbook and its manifest agree: every worksheet relationship has the
\* id some sheet's title maps to
ConsistentInput ==
    \A i \in 1..Len(manifest_.relationships) :
        manifest_.relationships[i].type = "worksheet" =>
            \E k \in 1..Len(source_.worksheets) :
                /\ source_.worksheets[k].title \in DOMAIN source_.sheet_title_rel_id_map_
                /\ source_.sheet_title_rel_id_map_[source_.worksheets[k].title]
                       = manifest_.relationships[i].id

\* C14: for every workbook relationship of a recognized type that
\* write_workbook's loop has dispatched, the generator of that type and no
\* other has written to a fresh serializer, and exactly one part is in the
\* archive at the relationship's archive path.  When the workbook and the
\* manifest agree that covers every pass entered; otherwise every pass ended.
C14_OneGeneratorOnePart ==
    (workbook_rels # <<>> /\ ci >= 1) =>
        \A j \in 1..(IF ConsistentInput THEN ChildPassesEntered ELSE ci - 1) :
            workbook_rels[j].type \in WorkbookRecognized =>
                /\ Cardinality({ k \in 1..(ci - 1) :
                        ChildEntry(k).path = PartOf(workbook_rels[j]) }) = 1
                /\ j <= ci - 1
                /\ First(ChildEntry(j)) = Tok("start", GeneratorElement(workbook_rels[j].type), "")
                /\ ChildEntry(j).roots = 1

C14_Witness ==
    /\ pc = "workbook_loop"
    /\ ci = 4
    /\ First(ChildEntry(1)) = Tok("start", "worksheet", "")
    /\ First(ChildEntry(2)) = Tok("start", "styleSheet", "")
    /\ First(ChildEntry(3)) = Tok("start", "a:theme", "")
    /\ ChildEntry(3).path = Rel(<<"xl", "theme", "theme1.xml">>)

\* the positions in the archive of the writes at a path
WritesAt(path) == { k \in 1..Len(destination_) : destination_[k].path = path }

\* C15: for a thumbnail relationship of the package root the workbook's
\* thumbnail bytes are written as they are at the relationship's target path,
\* exactly once, and the empty serializer buffer of that pass is not written.
C15_ThumbnailWrittenOnce ==
    \A i \in 1..RootPassesDone :
        LET rel == get_relationships(manifest_, RootPath)[i]
        IN  rel.type = "thumbnail" =>
                /\ Cardinality(WritesAt(rel.target)) = 1
                /\ \A k \in WritesAt(rel.target) :
                      /\ destination_[k].via = "thumbnail"
                      /\ destination_[k].toks = << Tok("bytes", "", source_.thumbnail) >>
                /\ \A e \in Entries : e.path = rel.target => e.toks # <<>>

C15_Witness ==
    /\ pc = "done"
    /\ Len(destination_) = 4
    /\ destination_[3].path = Rel(<<"docProps", "core.xml">>)
    /\ destination_[4].path = Rel(<<"docProps", "thumbnail.jpeg">>)
    /\ destination_[4].toks = << Tok("bytes", "", "thumbnail-bytes") >>

\* the targets of the manifest's relationships resolve to archive paths that
\* differ from one another
DistinctTargets ==
    \A i, j \in 1..Len(manifest_.relationships) :
        i # j => PartOf(manifest_.relationships[i]).parts # PartOf(manifest_.relationships[j]).parts

\* C16: with a manifest whose relationship targets resolve to pairwise
\* distinct archive paths, no archive path is written more than once.
C16_NoPathWrittenTwice ==
    \/ \A i, j \in 1..Len(destination_) :
          i # j => destination_[i].path # destination_[j].path
    \/ ~DistinctTargets

C16_Witness ==
    /\ pc = "done"
    /\ DistinctTargets
    /\ Len(destination_) = 8
    /\ Len(get_relationships(manifest_, WorkbookPart)) = 4
    /\ \E e \in Entries : e.path = WorkbookPart

OnlyFrom(e, own) ==
    \A t \in WorkbookRecognized \ {own} : Starts(e, GeneratorElement(t)) = {}

\* C19: the buffers of different parts are never shared: a part's bytes hold
\* the output of its own generator only.  The workbook's buffer holds the
\* workbook element alone, before, between and after the passes of the child
\* generators that rebind the serializer inside write_workbook, and no child
\* part holds the workbook element or another child's element.
C19_BuffersNotShared ==
    /\ pc \in {"workbook_relationships", "workbook_loop"} =>
          /\ First(serializer_stream) = Tok("start", "workbook", "")
          /\ roots(serializer_stream) = 1
          /\ OnlyFrom(serializer_stream, "none")
    /\ \A e \in Entries :
          e.via = "root_part" =>
              /\ OnlyFrom(e, "none")
              /\ e.path = WorkbookPart =>
                    /\ First(e) = Tok("start", "workbook", "")
                    /\ e.roots = 1
    /\ pc = "workbook_loop" =>
          \A j \in 1..(ci - 1) :
              /\ Starts(ChildEntry(j), "workbook") = {}
              /\ workbook_rels[j].type \in WorkbookRecognized =>
                    /\ OnlyFrom(ChildEntry(j), workbook_rels[j].type)
                    /\ Starts(ChildEntry(j), GeneratorElement(workbook_rels[j].type)) # {}

C19_Witness ==
    /\ pc = "done"
    /\ Len(destination_) = 8
    /\ destination_[8].path = WorkbookPart
    /\ First(destination_[8]) = Tok("start", "workbook", "")
    /\ Cardinality(Starts(destination_[8], "sheet")) = 1
    /\ First(destination_[5]) = Tok("start", "worksheet", "")
    /\ First(destination_[6]) = Tok("start", "styleSheet", "")
    /\ First(destination_[7]) = Tok("start", "a:theme", "")

\* the worksheet parts the finished archive holds
WorksheetParts ==
    { SheetPart(source_.worksheets[k]) : k \in 1..Len(source_.worksheets) }
        \cap { e.path : e \in Entries }

\* C20: for every worksheet part with relationships of its own in the
\* manifest (hyperlinks, comments, drawings), the finished archive holds the
\* worksheet's side-file, parent_dir(sheet)/_rels/<sheet filename>.rels.
C20_WorksheetRelsWritten ==
    pc = "done" =>
        \A part \in WorksheetParts :
            ManifestRels(part) # {} => \E e \in Entries : e.path = SideFile(part)

\* the positions, counted from 0, of the shared strings equal to a value
Matches(value) ==
    { i \in 0..(Len(source_.shared_strings) - 1) : source_.shared_strings[i + 1] = value }

FirstMatch(value) == CHOOSE i \in Matches(value) : \A j \in Matches(value) : i <= j

IndexStrings == <<"0", "1", "2">>

\* what a c element holds for a string cell with no formula
StringCellContent(cell) ==
    IF Matches(cell.value) # {}
    THEN << Tok("attr", "r", cell.ref), Tok("attr", "t", "s"),
            Tok("start", "v", ""), Tok("text", "", IndexStrings[FirstMatch(cell.value) + 1]) >>
    ELSE << Tok("attr", "r", cell.ref), Tok("attr", "t", "inlineStr"),
            Tok("start", "is", ""), Tok("start", "t", ""), Tok("text", "", cell.value) >>

\* C21: a worksheet part holds one c element per cell; a string cell with no
\* formula has t="s" and the position of the first equal shared string as its
\* v exactly when the shared-string table holds its value, and t="inlineStr"
\* with its literal text otherwise (the empty string included).
C21_StringCells ==
    \A k \in 1..Len(source_.worksheets) : \A e \in Entries :
        (e.via = "workbook_part" /\ e.path = SheetPart(source_.worksheets[k])) =>
            LET cells == source_.worksheets[k].cells
            IN  /\ Cardinality(Starts(e, "c")) = Len(cells)
                /\ \A i \in 1..Len(cells) :
                      (cells[i].type = "string" /\ ~cells[i].has_formula) =>
                          Content(e, "c", i) = StringCellContent(cells[i])

\* the positions, counted from 0, at which a collection holds a value
Positions(collection, value) ==
    { i \in 0..(Len(collection) - 1) : collection[i + 1] = value }

FirstPosition(collection, value) ==
    CHOOSE i \in Positions(collection, value) : \A j \in Positions(collection, value) : i <= j

\* a format refers to a font, fill, border or style no collection holds
LookupMisses(format) ==
    LET sheet == source_.stylesheet
    IN  \/ Positions(sheet.fonts, format.font) = {}
        \/ Positions(sheet.fills, format.fill) = {}
        \/ Positions(sheet.borders, format.border) = {}
        \/ Positions(sheet.styles, format.style) = {}

\* the styles parts in the archive
StylesEntries ==
    { e \in Entries : e.via = "workbook_part" /\ e.path = Rel(<<"xl", "styles.xml">>) }

\* C22: the xf element of every cell format carries as fontId, fillId,
\* borderId and xfId the positions of its font, fill, border and named style
\* in the stylesheet's collections; when one of the lookups misses, the
\* styles part is not written and the assembly ends in a fault.
C22_StyleIndices ==
    LET sheet == source_.stylesheet
        formats == sheet.formats
    IN  \A e \in StylesEntries :
            /\ \A i \in 1..Len(formats) : ~LookupMisses(formats[i])
            /\ Cardinality(Starts(e, "xf")) = Len(formats)
            /\ \A i \in 1..Len(formats) :
                  \A tok \in { Tok("attr", "fontId", IndexStrings[FirstPosition(sheet.fonts, formats[i].font) + 1]),
                                Tok("attr", "fillId", IndexStrings[FirstPosition(sheet.fills, formats[i].fill) + 1]),
                                Tok("attr", "borderId", IndexStrings[FirstPosition(sheet.borders, formats[i].border) + 1]),
                                Tok("attr", "xfId", IndexStrings[FirstPosition(sheet.styles, formats[i].style) + 1]) } :
                      \E j \in 1..Len(Content(e, "xf", i)) : Content(e, "xf", i)[j] = tok

\* the booleans an archive entry holds: the text of a ScaleCrop element
BooleanValues(e) ==
    { e.toks[i].v : i \in { j \in 2..Len(e.toks) :
                              /\ e.toks[j].k = "text"
                              /\ e.toks[j - 1] = Tok("start", "ScaleCrop", "") } }

\* C23: write_bool spells a boolean "1"/"0" when the workbook's short-bools
\* flag is set and "true"/"false" when it is not, and every boolean in the
\* archive is spelled the way write_bool spells it for this workbook.
C23_OneBoolSpelling ==
    /\ \A flag \in BOOLEAN :
          /\ write_bool([short_bools_ |-> flag], TRUE) = (IF flag THEN "1" ELSE "true")
          /\ write_bool([short_bools_ |-> flag], FALSE) = (IF flag THEN "0" ELSE "false")
    /\ \A e \in Entries :
          BooleanValues(e) \subseteq {write_bool(source_, TRUE), write_bool(source_, FALSE)}

\* the .rels files in the archive: one for the package root, one for every
\* entry into write_workbook that got as far as its relationships
RelationshipsWrites == { k \in 1..Len(destination_) : destination_[k].via = "relationships" }

RootOfficeDocuments ==
    { i \in 1..Len(get_relationships(manifest_, RootPath)) :
        get_relationships(manifest_, RootPath)[i].type = "office_document" }

\* C24: every write() ends, whatever the manifest's relationships relate to
\* (a workbook relationship that leads back to the workbook included), and
\* write_workbook is entered from the root level only: at most once per
\* office_document relationship of the package root.
C24_Terminates ==
    /\ <>(pc \in {"done", "faulted", "crashed"})
    /\ [](Cardinality(RelationshipsWrites) <= 1 + Cardinality(RootOfficeDocuments))

C24_Witness ==
    /\ pc = "done"
    /\ \E r \in ManifestRels(WorkbookPart) :
          /\ r.type = "office_document"
          /\ PartOf(r) = WorkbookPart
          /\ Cardinality(WritesAt(WorkbookPart)) = 2
    /\ Cardinality(RelationshipsWrites) = 2

\* the root relationship whose pass wrote the k-th entry of the archive
RootIndex(k) ==
    Cardinality({ i \in 1..k : destination_[i].via \in {"root_part", "thumbnail"} })

\* the workbook XML write_workbook generates for a root relationship
WorkbookXml(rel) ==
    write_workbook_element(EmptyBuf, source_, manifest_, rel,
                           manifest_.get_relationship_throws).buf.toks

\* C25: the workbook part is written to the archive straight after the
\* workbook's .rels file and the parts of all the workbook's relationships, in
\* that order; its XML is complete in populate_archive's buffer before the
\* .rels file and the first child are written, and is written unchanged.
C25_ChildrenBeforeWorkbook ==
    /\ \A k \in 1..Len(destination_) :
          (/\ destination_[k].via = "root_part"
           /\ RootIndex(k) <= Len(get_relationships(manifest_, RootPath))
           /\ get_relationships(manifest_, RootPath)[RootIndex(k)].type = "office_document") =>
             LET rel == get_relationships(manifest_, RootPath)[RootIndex(k)]
                 children == get_relationships(manifest_, rel.target)
                 first == k - Len(children) - 1
             IN  /\ first >= 1
                 /\ destination_[first].via = "relationships"
                 /\ destination_[first].path = rels_path(rel.target)
                 /\ \A j \in 1..Len(children) :
                       /\ destination_[first + j].via = "workbook_part"
                       /\ destination_[first + j].path = PartOf(children[j])
                 /\ destination_[k].path = rel.target
                 /\ destination_[k].toks = WorkbookXml(rel)
    /\ pc \in {"workbook_relationships", "workbook_loop"} =>
          /\ serializer_stream.toks = WorkbookXml(root_rels[ri])
          /\ Len(serializer_stream.toks) > 0
          /\ depth(serializer_stream) = 0
          /\ \A k \in 1..Len(destination_) :
                destination_[k].via = "root_part" => RootIndex(k) < ri

C25_Witness ==
    /\ pc = "done"
    /\ \E k \in 4..Len(destination_) :
          /\ destination_[k].via = "root_part"
          /\ destination_[k].path = WorkbookPart
          /\ First(destination_[k]) = Tok("start", "workbook", "")
          /\ destination_[k - 1].via = "workbook_part"
          /\ destination_[k - 2].via = "workbook_part"
          /\ destination_[k - 3].via = "relationships"
          /\ destination_[k - 3].path = rels_path(WorkbookPart)

\* every sheet's title maps to the id of a relationship of the part
SheetIdsHeldBy(part) ==
    \A k \in 1..Len(source_.worksheets) :
        /\ source_.worksheets[k].title \in DOMAIN source_.sheet_title_rel_id_map_
        /\ has_relationship(manifest_, part,
                            source_.sheet_title_rel_id_map_[source_.worksheets[k].title])

\* C26: when the workbook and the manifest agree and the workbook part holds
\* a relationship for the id of every sheet, the sheets loop of write_workbook
\* finds every id, whatever ids the package root holds: no write() ends on a
\* relationship that was not found.
C26_SheetIdsResolvedAtWorkbook ==
    (/\ ConsistentInput
     /\ \A r \in ManifestRels(RootPath) :
           r.type = "office_document" => SheetIdsHeldBy(r.target)) =>
        fault # "key_not_found"

\* the workbook parts in the archive
WorkbookEntries ==
    { e \in Entries : e.via = "root_part" /\ First(e) = Tok("start", "workbook", "") }

HasState(content) ==
    \E i \in 1..Len(content) : content[i].k = "attr" /\ content[i].n = "state"

\* C27: the sheets list of a written workbook part has one sheet element per
\* worksheet, in the workbook's order, with name, sheetId and, last, r:id set
\* to the id the title maps to; the element has a state attribute exactly when
\* the visibility count did not count the sheet.
C27_SheetsList ==
    \A e \in WorkbookEntries :
        /\ Cardinality(Starts(e, "sheets")) = 1
        /\ Cardinality(Starts(e, "sheet")) = Len(source_.worksheets)
        /\ \A k \in 1..Len(source_.worksheets) :
              LET ws == source_.worksheets[k]
                  content == Content(e, "sheet", k)
              IN  /\ Len(content) >= 3
                  /\ content[1] = Tok("attr", "name", ws.title)
                  /\ content[2] = Tok("attr", "sheetId", to_string(ws.id))
                  /\ content[Len(content)] =
                         Tok("attr", "r:id", source_.sheet_title_rel_id_map_[ws.title])
                  /\ HasState(content) <=> ~is_visible(ws)

\* sheet_title_rel_id_map_ is one-to-one from the sheets' titles onto the ids
\* of the worksheet relationships of the workbook being written
MapIsBijection ==
    LET map == source_.sheet_title_rel_id_map_
        ids == { workbook_rels[j].id :
                    j \in { m \in 1..Len(workbook_rels) : workbook_rels[m].type = "worksheet" } }
    IN  /\ DOMAIN map = { ws.title : ws \in Sheets }
        /\ { map[t] : t \in DOMAIN map } = ids
        /\ \A t, u \in DOMAIN map : map[t] = map[u] => t = u
        /\ Cardinality(Sheets) = Len(source_.worksheets)

\* the j-th pass of write_workbook's loop wrote the worksheet part of sheet ws
WroteSheet(j, ws) ==
    /\ j <= ci - 1
    /\ workbook_rels[j].type = "worksheet"
    /\ ws.title \in titles_of(source_, workbook_rels[j].id)
    /\ ChildEntry(j).path = archive_path(workbook_rels[j])
    /\ ChildEntry(j).toks = write_worksheet(EmptyBuf, ws).toks

\* C28: every pass of write_workbook's loop entered for a worksheet
\* relationship has written the part of the sheet whose title maps to the
\* relationship's id; when the map is a bijection onto the worksheet
\* relationships and the loop has ended, every sheet has been written by
\* exactly one pass.
C28_WorksheetOfRelationship ==
    workbook_rels # <<>> =>
        /\ \A j \in 1..ChildPassesEntered :
              workbook_rels[j].type = "worksheet" => \E ws \in Sheets : WroteSheet(j, ws)
        /\ (MapIsBijection /\ ci > Len(workbook_rels)) =>
              \A ws \in Sheets :
                  Cardinality({ j \in 1..Len(workbook_rels) : WroteSheet(j, ws) }) = 1

\* C29: whenever a generator has written through serializer_, the pointer
\* referred to the serializer of the pass that called the generator, which is
\* alive and writes to the buffer of the part of that pass: populate_archive's
\* serializer for a root relationship (write_workbook's own XML included),
\* the pass's child_serializer for a workbook relationship; nothing has been
\* written through a serializer that has gone out of scope or was never set.
C29_SerializerLive ==
    \A use \in serializer_uses :
        /\ use.through \notin {"unset", "destroyed"}
        /\ use.level = "populate_archive" => use.through = "serializer"
        /\ use.level = "write_workbook" => use.through = "child_serializer"

C29_Witness ==
    /\ pc = "done"
    /\ serializer_ = "destroyed"
    /\ serializer_uses = {[level |-> "populate_archive", through |-> "serializer"],
                          [level |-> "write_workbook", through |-> "child_serializer"]}
    /\ \E k \in 2..Len(destination_) :
          /\ destination_[k].via = "root_part"
          /\ destination_[k].path = WorkbookPart
          /\ destination_[k - 1].via = "workbook_part"

\* the writes write_workbook makes for the office_document relationships
\* among the root relationships i.. : the .rels file and a part per relationship
RECURSIVE WorkbookWrites(_)
WorkbookWrites(i) ==
    LET rels == get_relationships(manifest_, RootPath)
    IN  IF i > Len(rels) THEN 0
        ELSE (IF rels[i].type = "office_document"
              THEN 1 + Len(get_relationships(manifest_, rels[i].target))
              ELSE 0) + WorkbookWrites(i + 1)

Via(kinds) == { k \in 1..Len(destination_) : destination_[k].via \in kinds }

\* C30: a write() that has ended without a fault has made
\* 2 + R + the sum over the office_document root relationships of (1 + W)
\* writes to the archive: [Content_Types].xml, the root .rels file, one part
\* per root relationship, and per workbook its .rels file and one part per
\* workbook relationship, of whatever type.
C30_WriteCount ==
    pc = "done" =>
        /\ Len(destination_) =
               2 + Len(get_relationships(manifest_, RootPath)) + WorkbookWrites(1)
        /\ Cardinality(Via({"content_types"})) = 1
        /\ Cardinality(Via({"root_part", "thumbnail"})) =
               Len(get_relationships(manifest_, RootPath))
        /\ Cardinality(Via({"relationships"})) = 1 + Cardinality(RootOfficeDocuments)
        /\ Cardinality(Via({"workbook_part"})) =
               WorkbookWrites(1) - Cardinality(RootOfficeDocuments)

C30_Witness ==
    /\ pc = "done"
    /\ fault = "none"
    /\ Len(get_relationships(manifest_, RootPath)) = 2
    /\ Len(get_relationships(manifest_, WorkbookPart)) = 3
    /\ WorkbookWrites(1) = 4
    /\ Cardinality(Via({"thumbnail"})) = 1
    /\ \E k \in Via({"workbook_part"}) : destination_[k].toks = <<>>
    /\ Len(destination_) = 8

====
